---- MODULE Spec2Model ----
(***************************************************************************)
(* Model of the CMS Rucio load-test reconciler (loadtest/loadtest.py).     *)
(*                                                                         *)
(* The Rucio service is the environment: its state is the set of           *)
(* replication rules, the link (distance) table, the registered datasets   *)
(* and the RSE attributes.  One invocation of the script is a sequence of  *)
(* client calls; every client call is one step, so that the service may    *)
(* change, and the invocation may die, between any two calls.              *)
(***************************************************************************)
EXTENDS Integers, Sequences, FiniteSets, TLC

\* ------------------------------------------------------------------ bounds
\* get_distance returns between 0 and MaxLinks link records
MaxLinks == 2
\* a registered source dataset holds between 1 and MaxFiles files
MaxFiles == 2
\* generate_file is run for sizes of up to MaxChunks whole chunks (+/- 1 byte)
MaxChunks == 3

\* --------------------------------------------------------------- constants
ALLOWED_FILESIZES == [x \in {"270MB"} |-> 270000000]
account == "transfer_ops"
activity == "Functional Test"
filesize == "270MB"
CHUNK == 1024 * 1024

\* the sites named by the two expressions of the script
AllRSEs == {"T2_US_Wisconsin_Test", "T2_US_MIT_Test", "T2_US_UCSD_Test"}

\* client.list_rses(source_rse_expression) and client.list_rses(dest_rse_expression):
\* the sites the two expressions resolve to, in the order the service lists them.
source_rses == <<"T2_US_Wisconsin_Test">>
dest_rses == <<"T2_US_MIT_Test", "T2_US_UCSD_Test">>

Range(s) == {s[i] : i \in 1..Len(s)}

LOADTEST_DATASET_FMT(rse, fsize) == <<"/LoadTestSource/", rse, "/TEST#", fsize>>
LOADTEST_LFNDIR_FMT(rse) == <<"/store/test/loadtest/source/", rse, "/">>
LOADTEST_LFNBASE_FMT(fsize, filenumber) == <<"urandom.", fsize, ".file", filenumber>>

\* the DID record of file `filenumber` of the load-test dataset of `rse`
FileDid(rse, filenumber) ==
    [scope |-> "cms",
     name |-> LOADTEST_LFNDIR_FMT(rse) \o LOADTEST_LFNBASE_FMT(filesize, filenumber)]

\* the pairs the reconciliation loop acts on: source != destination
Pairs == {p \in Range(source_rses) \X Range(dest_rses) : p[1] # p[2]}

RuleStates == {"OK", "REPLICATING", "STUCK"}

VARIABLES
    \* ---- the service
    rules,          \* set of replication rule records
    distance,       \* [Pairs -> 0..MaxLinks]: number of links get_distance reports
    dids,           \* function: registered dataset name -> sequence of its files
    \* ---- one invocation of the script
    pc,             \* the client call the script makes next, or how it ended
    si, di,         \* positions in source_rses and dest_rses
    source_files,   \* list(client.list_files("cms", dataset))
    dest_rules,     \* the dict rse_expression -> rule of the current source
    links,          \* len(client.get_distance(source_rse, dest_rse))
    upload_status,  \* how uploader.upload ended for the current source
    \* ---- observation
    calls,          \* the rule, link and replica calls of this invocation, in order
    stable,         \* no link changed since this invocation started
    prev,           \* the previous invocation, if no link changed since it
                    \* started: "complete" (ran to its end) or "aborted";
                    \* "other" if a link changed, it crashed, or there is none
    \* ---- ensure_rse_self_expression
    rse_attrs,      \* [AllRSEs -> SUBSET AllRSEs]: attributes that are true
    todo,           \* sites the repair loop has still to visit
    repaired,       \* sites the repair loop has visited
    rse_log,        \* the attribute calls the repair loop has made
    \* ---- generate_file
    gpc, nbytes0, nbytes, written, b

vars == <<rules, distance, dids, pc, si, di, source_files, dest_rules, links,
          upload_status, calls, stable, prev, rse_attrs, todo, repaired, rse_log,
          gpc, nbytes0, nbytes, written, b>>

serviceVars == <<rules, distance, dids>>
scriptVars == <<pc, si, di, source_files, dest_rules, links, upload_status>>
rseVars == <<rse_attrs, todo, repaired, rse_log>>
genVars == <<gpc, nbytes0, nbytes, written, b>>

\* ------------------------------------------------------------ the service
\* the id the service gives a new rule: one no live rule carries
FreshId(rs, src, dst) ==
    LET used == {r.id[3] : r \in {x \in rs : x.id[1] = src /\ x.id[2] = dst}}
    IN  <<src, dst, CHOOSE k \in 1..(Cardinality(used) + 1) : k \notin used>>

\* client.add_replication_rule(**kw): the service registers the rule; it starts
\* replicating its dataset
AddRule(rs, kw) ==
    rs \cup {[id |-> FreshId(rs, kw.source_replica_expression, kw.rse_expression),
              scope |-> kw.dids[1].scope,
              name |-> kw.dids[1].name,
              account |-> kw.account,
              activity |-> kw.activity,
              rse_expression |-> kw.rse_expression,
              source_replica_expression |-> kw.source_replica_expression,
              copies |-> kw.copies,
              grouping |-> kw.grouping,
              purge_replicas |-> kw.purge_replicas,
              ignore_availability |-> kw.ignore_availability,
              state |-> "REPLICATING"]}

\* client.delete_replication_rule(rule_id)
DeleteRule(rs, rule_id) == {r \in rs : r.id # rule_id}

\* client.list_replication_rules(filters)
ListRules(rs, filters) ==
    {r \in rs : /\ r.scope = filters.scope
                /\ r.name = filters.name
                /\ r.account = filters.account
                /\ r.activity = filters.activity}

\* ------------------------------------------------------------- the script
\* a slip in lines 186-187: the two expressions exchanged
NewRuleSwapped(dataset, source_rse, dest_rse) ==
    [dids |-> <<[scope |-> "cms", name |-> dataset]>>,
     copies |-> 1,
     rse_expression |-> source_rse,
     source_replica_expression |-> dest_rse,
     account |-> account,
     activity |-> activity,
     purge_replicas |-> TRUE,
     ignore_availability |-> TRUE,
     grouping |-> "DATASET"]

\* the request of lines 183-193
NewRule(dataset, source_rse, dest_rse) ==
    [dids |-> <<[scope |-> "cms", name |-> dataset]>>,
     copies |-> 1,
     rse_expression |-> dest_rse,
     source_replica_expression |-> source_rse,
     account |-> account,
     activity |-> activity,
     purge_replicas |-> TRUE,
     ignore_availability |-> TRUE,
     grouping |-> "DATASET"]

\* a slip in line 154: the dict keyed by source_replica_expression
DestRulesBySource(listed, source_rse) ==
    LET mine == {r \in listed : r.source_replica_expression = source_rse}
        keys == {r.source_replica_expression : r \in mine}
    IN  {f \in [keys -> mine] : \A k \in keys : f[k].source_replica_expression = k}

\* the dicts the comprehension of lines 153-157 can build from the listed rules:
\* one entry per rse_expression; of two rules with one rse_expression the one
\* listed last stays, and the service decides the order
DestRules(listed, source_rse) ==
    LET mine == {r \in listed : r.source_replica_expression = source_rse}
        keys == {r.rse_expression : r \in mine}
    IN  {f \in [keys -> mine] : \A k \in keys : f[k].rse_expression = k}

\* a slip in line 221: only the first file is listed
ReplicasFirstOnly(files) ==
    [i \in 1..(IF Len(files) > 0 THEN 1 ELSE 0) |->
        [scope |-> files[i].scope, name |-> files[i].name, state |-> "U"]]

\* the replicas list of lines 219-222
Replicas(files) ==
    [i \in 1..Len(files) |->
        [scope |-> files[i].scope, name |-> files[i].name, state |-> "U"]]

\* where the loops of lines 132 and 159 go after destination number d of source
\* number s (d = 0: before the first destination): the next destination that
\* is not the source itself (line 160), else the next source, else the end
NextDest(s, d) ==
    LET cand == {j \in (d + 1)..Len(dest_rses) : dest_rses[j] # source_rses[s]}
    IN  IF cand # {}
        THEN [pc |-> "get_distance", si |-> s,
              di |-> CHOOSE j \in cand : \A k \in cand : j <= k]
        ELSE IF s < Len(source_rses)
             THEN [pc |-> "list_files", si |-> s + 1, di |-> 0]
             ELSE [pc |-> "done", si |-> 0, di |-> 0]

\* a slip in line 198: the state of the rule is not looked at
AfterLinksIgnoreState(dr, dest_rse, s, d) ==
    IF dest_rse \notin DOMAIN dr
    THEN [pc |-> "add_rule", si |-> s, di |-> d]
    ELSE [pc |-> "update_replicas", si |-> s, di |-> d]

\* a slip in lines 177-196: a missing rule is not created
AfterLinksNoCreate(dr, dest_rse, s, d) ==
    IF dest_rse \notin DOMAIN dr
    THEN NextDest(s, d)
    ELSE IF dr[dest_rse].state # "OK"
         THEN NextDest(s, d)
         ELSE [pc |-> "update_replicas", si |-> s, di |-> d]

\* lines 177-226 for one destination, the rule dict and the source loop given:
\* the call the script makes next
AfterLinks(dr, dest_rse, s, d) ==
    IF dest_rse \notin DOMAIN dr
    THEN [pc |-> "add_rule", si |-> s, di |-> d]
    ELSE IF dr[dest_rse].state # "OK"
         THEN NextDest(s, d)
         ELSE [pc |-> "update_replicas", si |-> s, di |-> d]

\* a slip in lines 163-172: a pair without link is skipped, rule or not
AfterDistanceKeepsRule(n, dr, dest_rse, s, d) ==
    IF n = 0
    THEN NextDest(s, d)
    ELSE AfterLinks(dr, dest_rse, s, d)

\* lines 163-176: what follows the answer of get_distance
AfterDistance(n, dr, dest_rse, s, d) ==
    IF n = 0 /\ dest_rse \in DOMAIN dr
    THEN [pc |-> "delete_rule", si |-> s, di |-> d]
    ELSE IF n = 0
         THEN NextDest(s, d)
         ELSE AfterLinks(dr, dest_rse, s, d)

Call(op, source_rse, dest_rse, arg) ==
    [op |-> op, source |-> source_rse, dest |-> dest_rse, arg |-> arg]

Running == pc \in {"list_files", "upload", "relist", "list_rules", "get_distance",
                   "delete_rule", "add_rule", "update_replicas"}
Ended == pc \in {"done", "aborted", "crashed"}

source_rse == source_rses[si]
dest_rse == dest_rses[di]
dataset == LOADTEST_DATASET_FMT(source_rse, filesize)
NoRules == [k \in {} |-> k]

Goto(pos) ==
    /\ pc' = pos.pc
    /\ si' = pos.si
    /\ di' = pos.di

\* lines 121-127: a new invocation
Start ==
    /\ pc = "idle"
    /\ filesize \in DOMAIN ALLOWED_FILESIZES
    /\ Goto(IF Len(source_rses) > 0
            THEN [pc |-> "list_files", si |-> 1, di |-> 0]
            ELSE [pc |-> "done", si |-> 0, di |-> 0])
    /\ stable' = TRUE
    /\ UNCHANGED <<serviceVars, source_files, dest_rules, links, upload_status,
                   calls, prev, rseVars, genVars>>

\* line 135: list the files of the source dataset
ListFiles ==
    /\ pc = "list_files"
    /\ IF dataset \in DOMAIN dids
       THEN /\ source_files' = dids[dataset]
            /\ pc' = "list_rules"
       ELSE /\ source_files' = <<>>
            /\ pc' = "upload"
    /\ upload_status' = "none"
    /\ UNCHANGED <<serviceVars, si, di, dest_rules, links, calls, stable, prev,
                   rseVars, genVars>>

\* line 142, upload_source_data (lines 93-106): file number 0 is generated and
\* uploaded; the upload registers it in the dataset, or fails with one of the
\* two exceptions the function catches
Upload ==
    /\ pc = "upload"
    /\ \E outcome \in {"ok", "InvalidRSEExpression", "NoFilesUploaded"} :
         /\ upload_status' = outcome
         /\ dids' = IF outcome = "ok"
                    THEN [n \in DOMAIN dids \cup {dataset} |->
                            IF n = dataset THEN <<FileDid(source_rse, 0)>> ELSE dids[n]]
                    ELSE dids
    /\ pc' = "relist"
    /\ UNCHANGED <<rules, distance, si, di, source_files, dest_rules, links, calls,
                   stable, prev, rseVars, genVars>>

\* line 143: the second list_files, inside the except block: DataIdentifierNotFound
\* raised here is caught by nothing
Relist ==
    /\ pc = "relist"
    /\ IF dataset \in DOMAIN dids
       THEN /\ source_files' = dids[dataset]
            /\ pc' = "list_rules"
       ELSE /\ source_files' = <<>>
            /\ pc' = "crashed"
    /\ UNCHANGED <<serviceVars, si, di, dest_rules, links, upload_status, calls,
                   stable, prev, rseVars, genVars>>

\* lines 145-157: list the rules of the dataset, keep those of this source
ListDestRules ==
    /\ pc = "list_rules"
    /\ \E dr \in DestRules(ListRules(rules, [scope |-> "cms", name |-> dataset,
                                             account |-> account,
                                             activity |-> activity]), source_rse) :
         /\ dest_rules' = dr
         /\ calls' = Append(calls, Call("list_replication_rules", source_rse, "", dr))
    /\ Goto(NextDest(si, 0))
    /\ UNCHANGED <<serviceVars, source_files, links, upload_status, stable, prev,
                   rseVars, genVars>>

\* line 162 and the branches of lines 163-207 that make no call
GetDistance ==
    /\ pc = "get_distance"
    /\ links' = distance[<<source_rse, dest_rse>>]
    /\ calls' = Append(calls, Call("get_distance", source_rse, dest_rse, links'))
    /\ Goto(AfterDistance(links', dest_rules, dest_rse, si, di))
    /\ UNCHANGED <<serviceVars, source_files, dest_rules, upload_status, stable,
                   prev, rseVars, genVars>>

\* line 170; no continue follows it, so lines 177-226 run for the same destination
DeleteReplicationRule ==
    /\ pc = "delete_rule"
    /\ rules' = DeleteRule(rules, dest_rules[dest_rse].id)
    /\ calls' = Append(calls, Call("delete_replication_rule", source_rse, dest_rse,
                                   dest_rules[dest_rse].id))
    /\ Goto(AfterLinks(dest_rules, dest_rse, si, di))
    /\ UNCHANGED <<distance, dids, source_files, dest_rules, links, upload_status,
                   stable, prev, rseVars, genVars>>

\* line 195
AddReplicationRule ==
    /\ pc = "add_rule"
    /\ LET kw == NewRule(dataset, source_rse, dest_rse)
       IN  /\ rules' = AddRule(rules, kw)
           /\ calls' = Append(calls, Call("add_replication_rule", source_rse, dest_rse, kw))
    /\ Goto(NextDest(si, di))
    /\ UNCHANGED <<distance, dids, source_files, dest_rules, links, upload_status,
                   stable, prev, rseVars, genVars>>

\* line 226
UpdateReplicasStates ==
    /\ pc = "update_replicas"
    /\ calls' = Append(calls, Call("update_replicas_states", source_rse, dest_rse,
                                   [rse |-> dest_rse, replicas |-> Replicas(source_files)]))
    /\ Goto(NextDest(si, di))
    /\ UNCHANGED <<serviceVars, source_files, dest_rules, links, upload_status,
                   stable, prev, rseVars, genVars>>

\* any other exception of a client call ends the invocation where it is
Abort ==
    /\ Running
    /\ pc' = "aborted"
    /\ UNCHANGED <<serviceVars, si, di, source_files, dest_rules, links,
                   upload_status, calls, stable, prev, rseVars, genVars>>

\* the process is gone; nothing of it is kept but what the service holds
Exit ==
    /\ Ended
    /\ pc' = "idle"
    /\ si' = 0
    /\ di' = 0
    /\ source_files' = <<>>
    /\ dest_rules' = NoRules
    /\ links' = 0
    /\ upload_status' = "none"
    /\ calls' = <<>>
    /\ stable' = TRUE
    /\ prev' = IF stable /\ pc = "done" THEN "complete"
               ELSE IF stable /\ pc = "aborted" THEN "aborted"
               ELSE "other"
    /\ UNCHANGED <<serviceVars, rseVars, genVars>>

\* ------------------------------------------------------- the environment
\* a link appears or disappears
LinkChange ==
    /\ pc = "idle" \/ Running
    /\ \E p \in Pairs, n \in 0..MaxLinks :
         /\ n # distance[p]
         /\ distance' = [distance EXCEPT ![p] = n]
    /\ stable' = (pc = "idle")
    /\ prev' = "other"
    /\ UNCHANGED <<rules, dids, scriptVars, calls, rseVars, genVars>>

\* the service moves a rule to another state
RuleStateChange ==
    /\ pc = "idle" \/ Running
    /\ \E r \in rules, st \in RuleStates :
         /\ st # r.state
         /\ rules' = (rules \ {r}) \cup {[r EXCEPT !.state = st]}
    /\ UNCHANGED <<distance, dids, scriptVars, calls, stable, prev, rseVars, genVars>>

\* a rule of the service for pair p in state st
InitRule(p, st) ==
    [id |-> <<p[1], p[2], 1>>,
     scope |-> "cms",
     name |-> LOADTEST_DATASET_FMT(p[1], filesize),
     account |-> account,
     activity |-> activity,
     rse_expression |-> p[2],
     source_replica_expression |-> p[1],
     copies |-> 1,
     grouping |-> "DATASET",
     purge_replicas |-> TRUE,
     ignore_availability |-> TRUE,
     state |-> st]

\* the files of a dataset that holds n of them
DatasetFiles(rse, n) == [i \in 1..n |-> FileDid(rse, i - 1)]

\* the service as an invocation can find it: any links, at most one rule per
\* pair in any state, each source dataset missing or holding some files;
\* the generator and the attribute repair are at rest
InitService ==
    /\ distance \in [Pairs -> 0..MaxLinks]
    /\ \E st \in [Pairs -> RuleStates \cup {"absent"}] :
         rules = {InitRule(p, st[p]) : p \in {q \in Pairs : st[q] # "absent"}}
    /\ \E n \in [Range(source_rses) -> 0..MaxFiles] :
         dids = [name \in {LOADTEST_DATASET_FMT(r, filesize) :
                              r \in {x \in Range(source_rses) : n[x] > 0}} |->
                    DatasetFiles(name[2], n[name[2]])]

InitScript ==
    /\ pc = "idle"
    /\ si = 0
    /\ di = 0
    /\ source_files = <<>>
    /\ dest_rules = NoRules
    /\ links = 0
    /\ upload_status = "none"
    /\ calls = <<>>
    /\ stable = TRUE
    /\ prev = "other"

RseAtRest ==
    /\ rse_attrs = [r \in AllRSEs |-> {r}]
    /\ todo = {}
    /\ repaired = {}
    /\ rse_log = {}

GenAtRest ==
    /\ gpc = "done"
    /\ nbytes0 = 0
    /\ nbytes = 0
    /\ written = 0
    /\ b = 0

Init == InitService /\ InitScript /\ RseAtRest /\ GenAtRest

Next ==
    \/ Start
    \/ ListFiles
    \/ Upload
    \/ Relist
    \/ ListDestRules
    \/ GetDistance
    \/ DeleteReplicationRule
    \/ AddReplicationRule
    \/ UpdateReplicasStates
    \/ Abort
    \/ Exit
    \/ LinkChange
    \/ RuleStateChange

Spec == Init /\ [][Next]_vars

\* --------------------------------------------------- reading the call log
\* the calls `op` of this invocation for the pair (s, d), as positions of calls
CallsOf(op, s, d) ==
    {i \in 1..Len(calls) : calls[i].op = op /\ calls[i].source = s /\ calls[i].dest = d}

\* the invocation has listed the rules of source s
Listed(s) == CallsOf("list_replication_rules", s, "") # {}
\* the dict it built from them
Snapshot(s) == calls[CHOOSE i \in CallsOf("list_replication_rules", s, "") : TRUE].arg
\* the invocation has asked for the links of (s, d)
Queried(s, d) == CallsOf("get_distance", s, d) # {}
\* the number of links it was told
Dist(s, d) == calls[CHOOSE i \in CallsOf("get_distance", s, d) : TRUE].arg

\* the invocation found a rule for (s, d), in a state of `states`
FoundRule(s, d, states) ==
    /\ Listed(s)
    /\ d \in DOMAIN Snapshot(s)
    /\ Snapshot(s)[d].state \in states

\* the invocation found no rule for (s, d)
FoundNoRule(s, d) ==
    /\ Listed(s)
    /\ d \notin DOMAIN Snapshot(s)

\* the load-test rules of the pair (s, d)
RulesOf(s, d) ==
    {r \in ListRules(rules, [scope |-> "cms", name |-> LOADTEST_DATASET_FMT(s, filesize),
                             account |-> account, activity |-> activity]) :
        r.source_replica_expression = s /\ r.rse_expression = d}

RulePairs == {p \in AllRSEs \X AllRSEs : RulesOf(p[1], p[2]) # {}}
LinkedPairs == {p \in Pairs : distance[p] > 0}

\* ----------------------------------------------------------------- claims

C2_UpdateOnlyOnHealthyLink ==
    \A p \in Pairs :
        CallsOf("update_replicas_states", p[1], p[2]) # {} =>
            /\ Queried(p[1], p[2])
            /\ Dist(p[1], p[2]) >= 1
            /\ FoundRule(p[1], p[2], {"OK"})

\* C3: no pair has more than one load-test rule, in any state the service
\* reaches through complete and aborted invocations, link changes and rule
\* state changes.
C3_AtMostOneRulePerPair ==
    \A s \in AllRSEs, d \in AllRSEs : Cardinality(RulesOf(s, d)) <= 1

\* C3 witness: an invocation during which a link changed ran to its end after
\* creating a rule, and every pair has a rule
C3_Witness ==
    /\ pc = "done"
    /\ ~stable
    /\ \E p \in Pairs : CallsOf("add_replication_rule", p[1], p[2]) # {}
    /\ \A p \in Pairs : RulesOf(p[1], p[2]) # {}

\* C4: when an invocation has run to its end and no link changed meanwhile,
\* no pair without a link has a load-test rule.
C4_NoRuleWithoutLink ==
    (pc = "done" /\ stable) =>
        \A p \in Pairs : distance[p] = 0 => RulesOf(p[1], p[2]) = {}

\* C4 witness: such an invocation, which deleted the rule of a pair without link
C4_Witness ==
    /\ pc = "done"
    /\ stable
    /\ \E p \in Pairs :
         /\ distance[p] = 0
         /\ CallsOf("delete_replication_rule", p[1], p[2]) # {}

\* C5: for a pair for which get_distance returned one link or more and the
\* invocation found no rule, the only rule, replica or link call that changes
\* anything is one add_replication_rule with the fields of lines 183-193; it
\* has been made when the invocation has run to its end.
C5_OneRuleCreatedForNewLink ==
    \A p \in Pairs :
        (FoundNoRule(p[1], p[2]) /\ Queried(p[1], p[2]) /\ Dist(p[1], p[2]) >= 1) =>
            /\ Cardinality(CallsOf("add_replication_rule", p[1], p[2])) <= 1
            /\ pc = "done" => Cardinality(CallsOf("add_replication_rule", p[1], p[2])) = 1
            /\ \A i \in CallsOf("add_replication_rule", p[1], p[2]) :
                 /\ calls[i].arg.source_replica_expression = p[1]
                 /\ calls[i].arg.rse_expression = p[2]
                 /\ calls[i].arg.copies = 1
                 /\ calls[i].arg.grouping = "DATASET"
                 /\ calls[i].arg.purge_replicas = TRUE
                 /\ calls[i].arg.ignore_availability = TRUE
                 /\ calls[i].arg.dids =
                      <<[scope |-> "cms", name |-> LOADTEST_DATASET_FMT(p[1], filesize)]>>
            /\ CallsOf("update_replicas_states", p[1], p[2]) = {}
            /\ CallsOf("delete_replication_rule", p[1], p[2]) = {}

\* C5 witness: an invocation ran to its end and created the rule of a pair
\* with several links
C5_Witness ==
    /\ pc = "done"
    /\ \E p \in Pairs :
         /\ FoundNoRule(p[1], p[2])
         /\ Dist(p[1], p[2]) > 1
         /\ CallsOf("add_replication_rule", p[1], p[2]) # {}

\* C6: for a pair whose rule the invocation found in state "OK", at most one
\* replica-state update is issued, it is targeted at the destination and lists
\* every file of the source dataset once, in state "U", and nothing else; it
\* has been issued when the invocation has run to its end.
C6_HealthyRuleMarksEveryFile ==
    \A p \in Pairs :
        FoundRule(p[1], p[2], {"OK"}) =>
            /\ Cardinality(CallsOf("update_replicas_states", p[1], p[2])) <= 1
            /\ pc = "done" => Cardinality(CallsOf("update_replicas_states", p[1], p[2])) = 1
            /\ \A i \in CallsOf("update_replicas_states", p[1], p[2]) :
                 LET files == dids[LOADTEST_DATASET_FMT(p[1], filesize)]
                     replicas == calls[i].arg.replicas
                 IN  /\ calls[i].arg.rse = p[2]
                     /\ Len(replicas) = Len(files)
                     /\ \A k \in 1..Len(files) :
                          /\ replicas[k].scope = files[k].scope
                          /\ replicas[k].name = files[k].name
                          /\ replicas[k].state = "U"

\* C6 witness: an invocation ran to its end and marked the two files of a
\* source dataset at a destination
C6_Witness ==
    /\ pc = "done"
    /\ \E p \in Pairs :
         /\ FoundRule(p[1], p[2], {"OK"})
         /\ \E i \in CallsOf("update_replicas_states", p[1], p[2]) :
              Len(calls[i].arg.replicas) = 2

\* C9: an upload that fails with InvalidRSEExpression or NoFilesUploaded does
\* not end the invocation with an exception.
C9_UploadFailureIsSkipped ==
    upload_status \in {"InvalidRSEExpression", "NoFilesUploaded"} => pc # "crashed"

\* C10: an invocation that runs to its end while no link changes leaves rules
\* on exactly the linked pairs, whether the invocation before it was aborted or
\* not; and if the invocation before it ran to its end and no link changed
\* since that one started, it creates and deletes no rule.
C10_ConvergesAfterAbort ==
    (pc = "done" /\ stable) =>
        /\ RulePairs = LinkedPairs
        /\ prev = "complete" =>
             \A p \in Pairs :
                 /\ CallsOf("add_replication_rule", p[1], p[2]) = {}
                 /\ CallsOf("delete_replication_rule", p[1], p[2]) = {}

\* C10 witness: the invocation after an aborted one, with no link changed since
\* the aborted one started, ran to its end and had rules left to create or delete
C10_Witness ==
    /\ pc = "done"
    /\ stable
    /\ prev = "aborted"
    /\ RulePairs = LinkedPairs
    /\ \E p \in Pairs :
         \/ CallsOf("add_replication_rule", p[1], p[2]) # {}
         \/ CallsOf("delete_replication_rule", p[1], p[2]) # {}

\* ------------------------------------------- ensure_rse_self_expression
\* client.list_rses(rse_expression=name) for a bare name: the sites whose
\* attribute `name` is true (docstring, lines 65-67); an empty answer is the
\* exception InvalidRSEExpression "RSE Expression resulted in an empty set."
ListRSEs(attrs, name) == {r \in AllRSEs : name \in attrs[r]}

\* client.add_rse_attribute(rse, key, True)
AddRseAttribute(attrs, rse, key) == [attrs EXCEPT ![rse] = @ \cup {key}]

\* client.delete_rse_attribute(rse, key), for every rse of `items`
DeleteRseAttributes(attrs, items, key) ==
    [r \in AllRSEs |-> IF r \in items THEN attrs[r] \ {key} ELSE attrs[r]]

\* a slip in lines 75-81: the attribute of the extraneous sites is left
EnsureSelfExpressionKeepsExtraneous(attrs, rse) ==
    IF rse \in ListRSEs(attrs, rse) THEN attrs ELSE AddRseAttribute(attrs, rse, rse)

\* lines 69-90: the attributes after ensure_rse_self_expression(client, rse)
EnsureSelfExpression(attrs, rse) ==
    LET matching == ListRSEs(attrs, rse)
        found == rse \in matching
        cleaned == DeleteRseAttributes(attrs, matching \ {rse}, rse)
    IN  IF matching = {}
        THEN AddRseAttribute(attrs, rse, rse)
        ELSE IF ~found
             THEN AddRseAttribute(cleaned, rse, rse)
             ELSE cleaned

\* the attribute calls it makes
EnsureCalls(attrs, rse) ==
    LET matching == ListRSEs(attrs, rse)
    IN  {<<"delete_rse_attribute", r, rse>> : r \in matching \ {rse}}
        \cup (IF rse \notin matching THEN {<<"add_rse_attribute", rse, rse>>} ELSE {})

\* lines 129-130: one turn of the loop over set(source_rses) | set(dest_rses);
\* a set is walked in no particular order
ensure_rse_self_expression ==
    /\ \E rse \in todo :
         /\ rse_attrs' = EnsureSelfExpression(rse_attrs, rse)
         /\ rse_log' = rse_log \cup EnsureCalls(rse_attrs, rse)
         /\ todo' = todo \ {rse}
         /\ repaired' = repaired \cup {rse}
    /\ UNCHANGED <<serviceVars, scriptVars, calls, stable, prev, genVars>>

ServiceAtRest ==
    /\ rules = {}
    /\ distance = [p \in Pairs |-> 0]
    /\ dids = <<>>

\* any attributes, and any sites for the two expressions to resolve to
InitRSE ==
    /\ rse_attrs \in [AllRSEs -> SUBSET AllRSEs]
    /\ todo \in SUBSET AllRSEs
    /\ repaired = {}
    /\ rse_log = {}
    /\ ServiceAtRest /\ InitScript /\ GenAtRest

NextRSE == ensure_rse_self_expression

SpecRSE == InitRSE /\ [][NextRSE]_vars

\* C7: every site the repair loop has visited, queried by its own name, gives
\* exactly that site, whatever the attributes were and in whatever order the
\* loop visits the sites; so it is for every site once the loop is over.
C7_SelfExpressionRepaired ==
    \A r \in repaired : ListRSEs(rse_attrs, r) = {r}

\* C7 witness: the loop is over, it visited every site, it removed a stray
\* attribute and added a missing one
C7_Witness ==
    /\ todo = {}
    /\ repaired = AllRSEs
    /\ \E c \in rse_log : c[1] = "delete_rse_attribute"
    /\ \E c \in rse_log : c[1] = "add_rse_attribute"

\* --------------------------------------------------------- generate_file
Min(x, y) == IF x < y THEN x ELSE y

\* a slip in line 33: always a whole chunk
ChunkSizeWhole(n) == CHUNK

\* line 33
ChunkSize(n) == Min(CHUNK, n)

\* lines 32-35: one turn of the loop
GenerateChunk ==
    /\ gpc = "loop"
    /\ nbytes > 0
    /\ b' = ChunkSize(nbytes)
    /\ written' = written + b'
    /\ nbytes' = nbytes - b'
    /\ UNCHANGED <<gpc, nbytes0, serviceVars, scriptVars, calls, stable, prev, rseVars>>

\* line 32: the loop ends, the files are closed
GenerateReturn ==
    /\ gpc = "loop"
    /\ ~(nbytes > 0)
    /\ gpc' = "done"
    /\ UNCHANGED <<nbytes0, nbytes, written, b, serviceVars, scriptVars, calls,
                   stable, prev, rseVars>>

\* the sizes generate_file is run for: around every multiple of the chunk
\* size up to MaxChunks chunks, and the sizes of ALLOWED_FILESIZES
GenSizes ==
    {n \in {k * CHUNK + r : k \in 0..MaxChunks, r \in {0 - 1, 0, 1}} : n >= 0}
        \cup {ALLOWED_FILESIZES[x] : x \in DOMAIN ALLOWED_FILESIZES}

InitGen ==
    /\ gpc = "loop"
    /\ nbytes0 \in GenSizes
    /\ nbytes = nbytes0
    /\ written = 0
    /\ b = 0
    /\ ServiceAtRest /\ InitScript /\ RseAtRest

NextGen == GenerateChunk \/ GenerateReturn

\* the interpreter runs the loop on
SpecGen == InitGen /\ [][NextGen]_vars /\ WF_vars(NextGen)

\* C8: generate_file ends, having written nbytes bytes in all (270,000,000
\* for "270MB"), by reads and writes of 1 to 1024*1024 bytes each.
C8_GeneratesExactSize ==
    /\ [](written + nbytes = nbytes0)
    /\ [](written > 0 => (1 <= b /\ b <= 1024 * 1024))
    /\ [](gpc = "done" => written = nbytes0)
    /\ []((gpc = "done" /\ nbytes0 = ALLOWED_FILESIZES["270MB"]) => written = 270000000)
    /\ <>(gpc = "done")

\* C8 witness: the file of the "270MB" label is complete, its last chunk a
\* partial one
C8_Witness ==
    /\ gpc = "done"
    /\ nbytes0 = ALLOWED_FILESIZES["270MB"]
    /\ written = 270000000
    /\ b < CHUNK

====
